---- MODULE Spec2Model ----
(***************************************************************************)
(* A model of oatdump (src/src/oatdump.cc): the dump of a compiled-code    *)
(* artifact (class OatDump), the dump of a heap-snapshot artifact with its *)
(* statistics (class ImageDump and ImageDump::Stats), and the driver       *)
(* oatdump() that selects between them.                                    *)
(*                                                                         *)
(* Text written to a stream is modelled as a sequence of tokens, one per   *)
(* rendered item: [t |-> what, n |-> its number, d |-> its string].        *)
(***************************************************************************)
EXTENDS Integers, Sequences, FiniteSets, TLC

\* ------------------------------------------------------------ bounds
\* Largest number of live objects the heap bitmap walk hands to the callback.
MaxObjects == 2
\* Largest number of source units (oat dex files) of an artifact given by --oat-file.
MaxDexFiles == 2

\* ------------------------------------------------------------ inputs
NULL == "NULL"

\* Number of source units of the companion artifact found from an image.
CompanionDexFileCounts == {0, 1}

\* NumClassDefs() of a source file that was found.
NumClassDefsChoices == {0, 1, 2}

\* Class data: NULL (no class data) or the members in stored order, each a
\* static field, an instance field, a direct method or a virtual method.
\* Well-formed class data stores them in that order; the last two values
\* violate the format (a member follows the virtual methods).
ClassDataChoices ==
  { <<NULL>>,
    <<>>,
    <<"SF", "IF", "DM", "DM", "VM">>,
    <<"IF", "VM">>,
    <<"VM", "DM">>,
    <<"DM", "SF">> }

\* --host-prefix values; "" is the default (no prefix).
HostPrefixes == {"", "/root"}

\* The location string stored in the image root kOatLocation.
StoredOatLocation == "/system/foo.art"

\* The location strings stored for the source units, in header order.
StoredDexLocations == << "/system/a.jar", "/system/b.jar", "/system/c.jar",
                         "/system/d.jar" >>

\* Lengths of the image file on disk.
FileLengths == {32, 56}

\* Class descriptors, in the order std::map<std::string, ...> iterates them.
Descriptors == <<"LA;", "LB;">>

\* Object sizes (SizeOf()).
Sizes == {8, 12}

Tok(t, n, d) == [t |-> t, n |-> n, d |-> d]

\* ------------------------------------------------------------ objects
\* What the callback reads of one object through the object model accessors.
\* code_size is the length of the code GetCode() points to, which the
\* callback never asks for.
MakeObject(in, sz, c, m, f, a, s, d, nat, abs, cs, reg, gcnull, gclen, mtnull, mtlen) ==
  [ InSpace |-> in, SizeOf |-> sz,
    IsClass |-> c, IsMethod |-> m, IsField |-> f, IsArrayInstance |-> a,
    IsStringClass |-> s, Descriptor |-> d,
    IsNative |-> nat, IsAbstract |-> abs, IsCalleeSaveMethod |-> cs,
    IsRegistered |-> reg, NativeMethod |-> IF reg THEN 7 ELSE 0,
    GcMapNull |-> gcnull, GcMapLength |-> gclen,
    MappingTableNull |-> mtnull, MappingTableLength |-> mtlen,
    insns_size_in_code_units |-> 3,
    code_size |-> IF m /\ ~cs THEN 16 ELSE 0 ]

\* Every combination of the capability checks; the ones that are methods are
\* well-formed managed methods.
CapabilityObjects ==
  { MakeObject(TRUE, 12, c, m, f, a, s, Descriptors[1],
               FALSE, FALSE, FALSE, FALSE, FALSE, 4, FALSE, 8) :
      c \in BOOLEAN, m \in BOOLEAN, f \in BOOLEAN,
      a \in BOOLEAN, s \in BOOLEAN }

\* Objects outside the dump space: a class, an array, and a managed method.
OutsideObjects ==
  { MakeObject(FALSE, 12, c, m, FALSE, a, FALSE, Descriptors[1],
               FALSE, FALSE, FALSE, FALSE, FALSE, 4, FALSE, 8) :
      c \in BOOLEAN, m \in BOOLEAN, a \in BOOLEAN }

\* Plain objects of every size and class, in and out of the dump space.
PlainObjects ==
  { MakeObject(in, sz, FALSE, FALSE, FALSE, FALSE, FALSE, Descriptors[k],
               FALSE, FALSE, FALSE, FALSE, TRUE, 0, TRUE, 0) :
      in \in BOOLEAN, sz \in Sizes, k \in 1..Len(Descriptors) }

\* Register/GC map and mapping table of a method: (null?, length).
GcMaps == { <<TRUE, 0>>, <<FALSE, 0>>, <<FALSE, 4>> }
MappingTables == { <<TRUE, 0>>, <<FALSE, 8>> }

\* The flags of a method: native, abstract, callee-save, registered (only a
\* native method is ever registered).
MethodFlags ==
  { k \in BOOLEAN \X BOOLEAN \X BOOLEAN \X BOOLEAN : k[4] => k[1] }

\* Methods with every combination of the execution-kind flags and side tables.
MethodObjects ==
  { MakeObject(TRUE, 8, FALSE, TRUE, FALSE, FALSE, FALSE, Descriptors[2],
               k[1], k[2], k[3], k[4], gc[1], gc[2], mt[1], mt[2]) :
      k \in MethodFlags, gc \in GcMaps, mt \in MappingTables }

Objects ==
  CapabilityObjects \cup OutsideObjects \cup PlainObjects \cup MethodObjects

\* The object "obj" names while no callback runs.
NoObject ==
  MakeObject(FALSE, 0, FALSE, FALSE, FALSE, FALSE, FALSE, "",
             FALSE, FALSE, FALSE, FALSE, TRUE, 0, TRUE, 0)

\* ------------------------------------------------------------ state
VARIABLES
  pc,                \* where the process is
  exit_code,         \* "none" while running, then the exit status
  os,                \* the output sink (std::cout or the --output file)
  err,               \* stderr
  oat_filename,      \* --oat-file, or NULL
  image_filename,    \* --image, or NULL
  host_prefix,       \* --host-prefix, "" when not given
  image_file_length, \* File::Length() of the image file
  stats_,            \* ImageDump::stats_
  obj,               \* the object of the last Callback invocation of the walk
  visited,           \* number of Callback invocations so far
  fault_at,          \* the check that terminated the process, "" if none
  oat_location,      \* the location last passed to FindOatFileFromOatLocation
  dex_file_count,    \* oat_dex_files.size()
  i,                 \* loop index of OatDump::Dump
  dex_file_location, \* the location last passed to DexFile::Open
  units,             \* per source unit reached: was it found, and its NumClassDefs
  class_def_index,   \* loop index of DumpOatDexFile
  class_data         \* the class data of the last class dumped

vars == << pc, exit_code, os, err, oat_filename, image_filename, host_prefix,
           image_file_length, stats_, obj, visited, fault_at, oat_location,
           dex_file_count, i, dex_file_location, units, class_def_index,
           class_data >>

argVars == << oat_filename, image_filename, host_prefix, image_file_length >>
oatVars == << dex_file_count, i, dex_file_location, units, class_def_index,
              class_data >>
walkVars == << stats_, obj, visited >>

\* ------------------------------------------------------------ helpers
\* kObjectAlignment (globals.h).
kObjectAlignment == 8

\* sizeof(ImageHeader) (image.h): magic, version and five words. Not a
\* multiple of kObjectAlignment, so the header has alignment padding.
sizeof_ImageHeader == 28

\* RoundUp(x, n) (utils.h).
RoundUp(x, n) == ((x + n - 1) \div n) * n

\* DCHECK (logging.h): a failed DCHECK is a fatal fault, as a failed CHECK.
DCheckEnabled == TRUE

\* Mutant: the entry is assigned, not added to.
MapAdd_Assign(m, key, n) ==
  LET m0 == IF key \in DOMAIN m THEN m ELSE m @@ (key :> 0)
  IN  [m0 EXCEPT ![key] = n]

\* std::map<std::string, size_t>::operator[](key) += n : the entry is created
\* with value 0 when the key is new.
MapAdd(m, key, n) ==
  LET m0 == IF key \in DOMAIN m THEN m ELSE m @@ (key :> 0)
  IN  [m0 EXCEPT ![key] = @ + n]

\* Mutant: the prefix is not applied.
PrefixedLocation_NoPrefix(prefix, location) == location

\* std::string: host_prefix + location when the prefix is not empty.
PrefixedLocation(prefix, location) ==
  IF prefix # "" THEN prefix \o location ELSE location

\* The text written for a location: the stored string, then the translated
\* one in parentheses when there is a prefix.
LocationText(label, prefix, location) ==
  IF prefix # ""
    THEN << Tok(label, 0, location), Tok("(", 0, prefix \o location) >>
    ELSE << Tok(label, 0, location) >>

\* Stats::Stats()
NewStats ==
  [ file_bytes |-> 0, header_bytes |-> 0, object_bytes |-> 0,
    alignment_bytes |-> 0, managed_code_bytes |-> 0,
    managed_to_native_code_bytes |-> 0, native_to_managed_code_bytes |-> 0,
    register_map_bytes |-> 0, pc_mapping_table_bytes |-> 0,
    dex_instruction_bytes |-> 0,
    descriptor_to_bytes |-> [d \in {} |-> 0],
    descriptor_to_count |-> [d \in {} |-> 0] ]

\* ------------------------------------------------------------ ImageDump::Callback
\* Mutant: every object counts as contained.
InDumpSpace_Any(o) == TRUE

\* bool InDumpSpace(const Object* object)
InDumpSpace(o) == o.InSpace

\* Mutant: the array test comes first.
TopLevelCategory_ArrayFirst(o) ==
  IF o.IsArrayInstance THEN << Tok("ARRAY", 0, "") >>
  ELSE IF o.IsClass THEN << Tok("CLASS", 0, "") >>
  ELSE IF o.IsMethod THEN << Tok("METHOD", 0, "") >>
  ELSE IF o.IsField THEN << Tok("FIELD", 0, "") >>
  ELSE IF o.IsStringClass THEN << Tok("STRING", 0, "") >>
  ELSE << Tok("OBJECT", 0, "") >>

\* The if / else-if chain that names the kind of object.
TopLevelCategory(o) ==
  IF o.IsClass THEN << Tok("CLASS", 0, "") >>
  ELSE IF o.IsMethod THEN << Tok("METHOD", 0, "") >>
  ELSE IF o.IsField THEN << Tok("FIELD", 0, "") >>
  ELSE IF o.IsArrayInstance THEN << Tok("ARRAY", 0, "") >>
  ELSE IF o.IsStringClass THEN << Tok("STRING", 0, "") >>
  ELSE << Tok("OBJECT", 0, "") >>

\* The code and invoke stub lines of a method that is no callee-save method.
CodeAndStub(o) ==
  IF ~o.IsCalleeSaveMethod
    THEN << Tok("CODE", 0, ""), Tok("JNI STUB", 0, "") >>
    ELSE << >>

\* The three DCHECKs of a native, abstract or callee-save method.
NoSideTables(o) ==
  o.GcMapNull /\ o.GcMapLength = 0 /\ o.MappingTableNull

\* The two DCHECKs of a method that falls through to the last branch.
HasGcMap(o) ==
  ~o.GcMapNull /\ o.GcMapLength # 0

\* Mutant: the abstract test comes before the native test.
MethodDetail_AbstractFirst(o) ==
  IF o.IsAbstract THEN
    [ summary |-> << Tok("ABSTRACT", 0, "") >>,
      fault |-> DCheckEnabled /\ ~NoSideTables(o),
      register_map_bytes |-> 0, pc_mapping_table_bytes |-> 0,
      dex_instruction_bytes |-> 0 ]
  ELSE IF o.IsNative THEN
    [ summary |-> << IF o.IsRegistered
                       THEN Tok("NATIVE REGISTERED", o.NativeMethod, "")
                       ELSE Tok("NATIVE UNREGISTERED", 0, "") >>,
      fault |-> DCheckEnabled /\ ~NoSideTables(o),
      register_map_bytes |-> 0, pc_mapping_table_bytes |-> 0,
      dex_instruction_bytes |-> 0 ]
  ELSE IF o.IsCalleeSaveMethod THEN
    [ summary |-> << Tok("CALLEE SAVE METHOD", 0, "") >>,
      fault |-> DCheckEnabled /\ ~NoSideTables(o),
      register_map_bytes |-> 0, pc_mapping_table_bytes |-> 0,
      dex_instruction_bytes |-> 0 ]
  ELSE
    IF DCheckEnabled /\ ~HasGcMap(o) THEN
      [ summary |-> << >>, fault |-> TRUE,
        register_map_bytes |-> 0, pc_mapping_table_bytes |-> 0,
        dex_instruction_bytes |-> 0 ]
    ELSE
      [ summary |-> << Tok("GC=", o.GcMapLength, ""),
                       Tok("Mapping=", o.MappingTableLength, ""),
                       Tok("SIZE Code=", o.insns_size_in_code_units * 2, "") >>,
        fault |-> FALSE,
        register_map_bytes |-> o.GcMapLength,
        pc_mapping_table_bytes |-> o.MappingTableLength,
        dex_instruction_bytes |-> o.insns_size_in_code_units * 2 ]

\* The if / else-if chain on the kind of method: the text appended, whether a
\* DCHECK of the branch fails, and the bytes the branch adds to the totals.
MethodDetail(o) ==
  IF o.IsNative THEN
    [ summary |-> << IF o.IsRegistered
                       THEN Tok("NATIVE REGISTERED", o.NativeMethod, "")
                       ELSE Tok("NATIVE UNREGISTERED", 0, "") >>,
      fault |-> DCheckEnabled /\ ~NoSideTables(o),
      register_map_bytes |-> 0, pc_mapping_table_bytes |-> 0,
      dex_instruction_bytes |-> 0 ]
  ELSE IF o.IsAbstract THEN
    [ summary |-> << Tok("ABSTRACT", 0, "") >>,
      fault |-> DCheckEnabled /\ ~NoSideTables(o),
      register_map_bytes |-> 0, pc_mapping_table_bytes |-> 0,
      dex_instruction_bytes |-> 0 ]
  ELSE IF o.IsCalleeSaveMethod THEN
    [ summary |-> << Tok("CALLEE SAVE METHOD", 0, "") >>,
      fault |-> DCheckEnabled /\ ~NoSideTables(o),
      register_map_bytes |-> 0, pc_mapping_table_bytes |-> 0,
      dex_instruction_bytes |-> 0 ]
  ELSE
    IF DCheckEnabled /\ ~HasGcMap(o) THEN
      [ summary |-> << >>, fault |-> TRUE,
        register_map_bytes |-> 0, pc_mapping_table_bytes |-> 0,
        dex_instruction_bytes |-> 0 ]
    ELSE
      [ summary |-> << Tok("GC=", o.GcMapLength, ""),
                       Tok("Mapping=", o.MappingTableLength, ""),
                       Tok("SIZE Code=", o.insns_size_in_code_units * 2, "") >>,
        fault |-> FALSE,
        register_map_bytes |-> o.GcMapLength,
        pc_mapping_table_bytes |-> o.MappingTableLength,
        dex_instruction_bytes |-> o.insns_size_in_code_units * 2 ]

\* The second "if (obj->IsMethod())" block of the callback.
MethodPart(o) ==
  IF o.IsMethod
    THEN LET md == MethodDetail(o)
         IN  [md EXCEPT !.summary = CodeAndStub(o) \o @]
    ELSE [ summary |-> << >>, fault |-> FALSE,
           register_map_bytes |-> 0, pc_mapping_table_bytes |-> 0,
           dex_instruction_bytes |-> 0 ]

\* The body of Callback for an object in the dump space: the statistics after
\* it, the summary it built, and whether a DCHECK stopped it before the write.
Visit(s, o) ==
  LET object_bytes == o.SizeOf
      alignment_bytes == RoundUp(object_bytes, kObjectAlignment) - object_bytes
      mp == MethodPart(o)
  IN  [ stats |->
          [s EXCEPT
             !.object_bytes = @ + object_bytes,
             !.alignment_bytes = @ + alignment_bytes,
             !.descriptor_to_bytes = MapAdd(@, o.Descriptor, object_bytes),
             !.descriptor_to_count = MapAdd(@, o.Descriptor, 1),
             !.register_map_bytes = @ + mp.register_map_bytes,
             !.pc_mapping_table_bytes = @ + mp.pc_mapping_table_bytes,
             !.dex_instruction_bytes = @ + mp.dex_instruction_bytes],
        summary |->
          << Tok("%p:", 0, "") >> \o TopLevelCategory(o)
            \o << Tok("class", 0, o.Descriptor) >> \o mp.summary,
        fault |-> mp.fault ]

\* static void Callback(Object* obj, void* arg), one invocation by
\* HeapBitmap::Walk.
Callback ==
  /\ pc = "walk"
  /\ visited < MaxObjects
  /\ \E o \in Objects :
       /\ obj' = o
       /\ visited' = visited + 1
       /\ IF ~InDumpSpace(o)
            THEN UNCHANGED << stats_, os, pc, exit_code, fault_at >>
            ELSE LET r == Visit(stats_, o)
                 IN  /\ stats_' = r.stats
                     /\ IF r.fault
                          THEN /\ pc' = "fault"
                               /\ exit_code' = "ABORT"
                               /\ fault_at' = "method side tables"
                               /\ os' = os
                          ELSE /\ os' = os \o r.summary
                               /\ UNCHANGED << pc, exit_code, fault_at >>
  /\ UNCHANGED << err, argVars, oat_location, oatVars >>

\* ------------------------------------------------------------ ImageDump::Stats::Dump
RECURSIVE DescriptorTable(_, _)
\* The loop over descriptor_to_bytes from its k-th key on: the lines written
\* and the running object_bytes_total.
DescriptorTable(s, k) ==
  IF k > Len(Descriptors) THEN [ out |-> << >>, total |-> 0 ]
  ELSE LET rest == DescriptorTable(s, k + 1)
           descriptor == Descriptors[k]
       IN  IF descriptor \in DOMAIN s.descriptor_to_bytes
             THEN [ out |-> << Tok("bytes", s.descriptor_to_bytes[descriptor],
                                   descriptor),
                               Tok("instances",
                                   s.descriptor_to_count[descriptor],
                                   descriptor) >> \o rest.out,
                    total |-> s.descriptor_to_bytes[descriptor] + rest.total ]
             ELSE rest

\* The lines up to the first CHECK_EQ.
StatsHead(s) ==
  << Tok("file_bytes", s.file_bytes, ""),
     Tok("file_bytes = header_bytes + object_bytes + alignment_bytes", 0, ""),
     Tok("header_bytes", s.header_bytes, ""),
     Tok("object_bytes", s.object_bytes, ""),
     Tok("alignment_bytes", s.alignment_bytes, "") >>

\* Mutant: the check is not made.
FileBytesCheck_Skipped(s) == TRUE

\* CHECK_EQ(file_bytes, header_bytes + object_bytes + alignment_bytes)
FileBytesCheck(s) ==
  s.file_bytes = s.header_bytes + s.object_bytes + s.alignment_bytes

\* CHECK_EQ(object_bytes, object_bytes_total)
ObjectBytesCheck(s) ==
  s.object_bytes = DescriptorTable(s, 1).total

\* The lines after the second CHECK_EQ.
StatsTail(s) ==
  << Tok("managed_code_bytes", s.managed_code_bytes, ""),
     Tok("managed_to_native_code_bytes", s.managed_to_native_code_bytes, ""),
     Tok("native_to_managed_code_bytes", s.native_to_managed_code_bytes, ""),
     Tok("register_map_bytes", s.register_map_bytes, ""),
     Tok("pc_mapping_table_bytes", s.pc_mapping_table_bytes, ""),
     Tok("dex_instruction_bytes", s.dex_instruction_bytes, ""),
     Tok("managed_code_bytes expansion", 0, "") >>

\* void Stats::Dump(std::ostream& os): what it writes and the check that
\* stopped it, "" when it ran to its end.
StatsDump(s) ==
  IF ~FileBytesCheck(s)
    THEN [ out |-> StatsHead(s), fault |-> "file_bytes" ]
  ELSE IF ~ObjectBytesCheck(s)
    THEN [ out |-> StatsHead(s)
                     \o << Tok("object_bytes = sum of descriptor_to_bytes values below:", 0, "") >>
                     \o DescriptorTable(s, 1).out,
           fault |-> "object_bytes" ]
  ELSE [ out |-> StatsHead(s)
                   \o << Tok("object_bytes = sum of descriptor_to_bytes values below:", 0, "") >>
                   \o DescriptorTable(s, 1).out
                   \o StatsTail(s),
         fault |-> "" ]

\* Mutant: the header's padding is assigned, not added.
Finalize_PaddingAssigned(s, length) ==
  LET header_bytes == sizeof_ImageHeader
      alignment_bytes == RoundUp(header_bytes, kObjectAlignment) - header_bytes
  IN  [s EXCEPT !.file_bytes = length,
                !.header_bytes = header_bytes,
                !.alignment_bytes = alignment_bytes]

\* The statistics as ImageDump::Dump sets them after the walk: file_bytes
\* from the file length, header_bytes, and the header's padding.
Finalize(s, length) ==
  LET header_bytes == sizeof_ImageHeader
      alignment_bytes == RoundUp(header_bytes, kObjectAlignment) - header_bytes
  IN  [s EXCEPT !.file_bytes = length,
                !.header_bytes = header_bytes,
                !.alignment_bytes = @ + alignment_bytes]

\* ------------------------------------------------------------ OatDump::Dump, head
\* The header fields OatDump::Dump writes before its loop.
OatHeaderText ==
  << Tok("MAGIC:", 0, ""), Tok("CHECKSUM:", 0, ""),
     Tok("DEX FILE COUNT:", 0, ""), Tok("EXECUTABLE OFFSET:", 0, ""),
     Tok("BEGIN:", 0, ""), Tok("END:", 0, "") >>

\* ------------------------------------------------------------ ImageDump::Dump
\* The header fields and the roots ImageDump::Dump writes before the walk.
ImageHeaderText ==
  << Tok("MAGIC:", 0, ""), Tok("IMAGE BEGIN:", 0, ""),
     Tok("OAT CHECKSUM:", 0, ""), Tok("OAT BEGIN:", 0, ""),
     Tok("OAT END:", 0, ""), Tok("ROOTS:", 0, ""), Tok("OBJECTS:", 0, "") >>

\* Mutant: the header is dumped before it is validated.
OpenImage_DumpThenValidate ==
  /\ pc = "main"
  /\ image_filename # NULL /\ oat_filename = NULL
  /\ \E created \in BOOLEAN, valid \in BOOLEAN :
       IF ~created THEN
         /\ err' = Append(err, "Failed to create runtime")
         /\ exit_code' = "EXIT_FAILURE" /\ pc' = "done"
         /\ UNCHANGED os
       ELSE IF ~valid THEN
         /\ err' = Append(err, "Invalid image header")
         /\ exit_code' = "EXIT_FAILURE" /\ pc' = "done"
         /\ os' = os \o ImageHeaderText
       ELSE
         /\ os' = os \o ImageHeaderText
         /\ pc' = "walk"
         /\ UNCHANGED << err, exit_code >>
  /\ UNCHANGED << argVars, walkVars, fault_at, oat_location, oatVars >>

\* oatdump() with --image: the runtime is created, the image header is
\* validated, and ImageDump::Dump writes the header and starts the walk.
OpenImage ==
  /\ pc = "main"
  /\ image_filename # NULL /\ oat_filename = NULL
  /\ \E created \in BOOLEAN, valid \in BOOLEAN :
       IF ~created THEN
         /\ err' = Append(err, "Failed to create runtime")
         /\ exit_code' = "EXIT_FAILURE" /\ pc' = "done"
         /\ UNCHANGED os
       ELSE IF ~valid THEN
         /\ err' = Append(err, "Invalid image header")
         /\ exit_code' = "EXIT_FAILURE" /\ pc' = "done"
         /\ UNCHANGED os
       ELSE
         /\ os' = os \o ImageHeaderText
         /\ pc' = "walk"
         /\ UNCHANGED << err, exit_code >>
  /\ UNCHANGED << argVars, walkVars, fault_at, oat_location, oatVars >>

\* Mutant: the statistics are dumped before they are finalized.
DumpStats_DumpThenFinalize ==
  /\ pc = "walk"
  /\ LET r == StatsDump(stats_)
         s == Finalize(stats_, image_file_length)
     IN  /\ stats_' = s
         /\ os' = os \o << Tok("STATS:", 0, "") >> \o r.out
         /\ IF r.fault # ""
              THEN pc' = "fault" /\ exit_code' = "ABORT" /\ fault_at' = r.fault
              ELSE pc' = "oat_location" /\ UNCHANGED << exit_code, fault_at >>
  /\ obj' = NoObject
  /\ UNCHANGED << err, argVars, visited, oat_location, oatVars >>

\* ImageDump::Dump after HeapBitmap::Walk returns: the statistics are
\* finalized and dumped.
DumpStats ==
  /\ pc = "walk"
  /\ LET s == Finalize(stats_, image_file_length)
         r == StatsDump(s)
     IN  /\ stats_' = s
         /\ os' = os \o << Tok("STATS:", 0, "") >> \o r.out
         /\ IF r.fault # ""
              THEN pc' = "fault" /\ exit_code' = "ABORT" /\ fault_at' = r.fault
              ELSE pc' = "oat_location" /\ UNCHANGED << exit_code, fault_at >>
  /\ obj' = NoObject
  /\ UNCHANGED << err, argVars, visited, oat_location, oatVars >>

\* ImageDump::Dump, the companion artifact: its location is written and
\* looked up; when found, OatDump::Dump starts on it.
FindOatFile ==
  /\ pc = "oat_location"
  /\ oat_location' = PrefixedLocation(host_prefix, StoredOatLocation)
  /\ \E found \in BOOLEAN :
       IF ~found THEN
         /\ os' = os \o LocationText("OAT LOCATION:", host_prefix, StoredOatLocation)
                     \o << Tok("NOT FOUND", 0, "") >>
         /\ pc' = "done" /\ exit_code' = "EXIT_SUCCESS"
         /\ UNCHANGED << dex_file_count, i >>
       ELSE
         /\ os' = os \o LocationText("OAT LOCATION:", host_prefix, StoredOatLocation)
                     \o OatHeaderText
         /\ \E n \in CompanionDexFileCounts : dex_file_count' = n
         /\ i' = 0
         /\ pc' = "oat_dex"
         /\ UNCHANGED exit_code
  /\ UNCHANGED << err, argVars, walkVars, fault_at, dex_file_location, units,
                  class_def_index, class_data >>

\* ------------------------------------------------------------ OatDump
\* ClassDataItemIterator (dex_file.h): a cursor over the members of a class;
\* HasNextStaticField, HasNextInstanceField, HasNextDirectMethod and
\* HasNextVirtualMethod say what the member at the cursor is.
HasNextMember(cd, pos, kind) == pos <= Len(cd) /\ cd[pos] = kind

\* ClassDataItemIterator::HasNext
HasNext(cd, pos) == pos <= Len(cd)

RECURSIVE SkipFields(_, _, _)
\* while (it.HasNextStaticField()) it.Next();  and the same for instance fields
SkipFields(cd, pos, kind) ==
  IF HasNextMember(cd, pos, kind) THEN SkipFields(cd, pos + 1, kind) ELSE pos

\* static void DumpOatMethod(...): the lines of one method; the member the
\* cursor is at stands for the name, signature and method_idx it prints.
DumpOatMethod(method_index, member) ==
  << Tok("method", method_index, member) >>

RECURSIVE DumpMethods(_, _, _, _)
\* while (it.HasNextDirectMethod()) { DumpOatMethod(..., method_index, ...);
\*   method_index++; it.Next(); }  and the same for virtual methods
DumpMethods(cd, pos, method_index, kind) ==
  IF HasNextMember(cd, pos, kind)
    THEN LET rest == DumpMethods(cd, pos + 1, method_index + 1, kind)
         IN  [rest EXCEPT !.out = DumpOatMethod(method_index, cd[pos]) \o @]
    ELSE [ out |-> << >>, pos |-> pos, method_index |-> method_index ]

\* Mutant: the ordinal starts again at 0 for the virtual methods.
DumpOatClass_VirtualFromZero(cd) ==
  IF cd = << NULL >> THEN [ out |-> << >>, fault |-> FALSE ]
  ELSE LET afterStatic == SkipFields(cd, 1, "SF")
           afterInstance == SkipFields(cd, afterStatic, "IF")
           direct == DumpMethods(cd, afterInstance, 0, "DM")
           virtual == DumpMethods(cd, direct.pos, 0, "VM")
       IN  [ out |-> direct.out \o virtual.out,
             fault |-> DCheckEnabled /\ HasNext(cd, virtual.pos) ]

\* static void DumpOatClass(...): what it writes, and whether the final
\* DCHECK(!it.HasNext()) fails.
DumpOatClass(cd) ==
  IF cd = << NULL >> THEN [ out |-> << >>, fault |-> FALSE ]
  ELSE LET afterStatic == SkipFields(cd, 1, "SF")
           afterInstance == SkipFields(cd, afterStatic, "IF")
           direct == DumpMethods(cd, afterInstance, 0, "DM")
           virtual == DumpMethods(cd, direct.pos, direct.method_index, "VM")
       IN  [ out |-> direct.out \o virtual.out,
             fault |-> DCheckEnabled /\ HasNext(cd, virtual.pos) ]

\* Mutant: a unit that returns ends the loop.
NextDexFile_Stop(k, count) == count

\* for (size_t i = 0; i < oat_dex_files.size(); i++): the index of the unit
\* dumped after unit k, whether DumpOatDexFile returned early or at its end.
NextDexFile(k, count) == k + 1

\* oatdump() when the two file options are neither or both given.
BadArguments ==
  /\ pc = "main"
  /\ (image_filename = NULL) = (oat_filename = NULL)
  /\ err' = Append(err, IF image_filename = NULL
                          THEN "Either --image or --oat must be specified"
                          ELSE "Either --image or --oat must be specified but not both")
  /\ exit_code' = "EXIT_FAILURE" /\ pc' = "done"
  /\ UNCHANGED << os, argVars, walkVars, fault_at, oat_location, oatVars >>

\* oatdump() with --oat-file: the artifact is opened and OatDump::Dump
\* writes its header fields.
OpenOatFile ==
  /\ pc = "main"
  /\ oat_filename # NULL /\ image_filename = NULL
  /\ \E opened \in BOOLEAN :
       IF ~opened THEN
         /\ err' = Append(err, "Failed to open oat file")
         /\ exit_code' = "EXIT_FAILURE" /\ pc' = "done"
         /\ UNCHANGED << os, dex_file_count, i >>
       ELSE
         /\ os' = os \o OatHeaderText
         /\ \E n \in 0..MaxDexFiles : dex_file_count' = n
         /\ i' = 0
         /\ pc' = "oat_dex"
         /\ UNCHANGED << err, exit_code >>
  /\ UNCHANGED << argVars, walkVars, fault_at, oat_location, dex_file_location,
                  units, class_def_index, class_data >>

\* static void DumpOatDexFile(...), up to its loop: the unit's location and
\* checksum are written and its source file is opened.
DumpOatDexFile ==
  /\ pc = "oat_dex"
  /\ i < dex_file_count
  /\ LET location == StoredDexLocations[i + 1]
         head == << Tok("OAT DEX FILE:", 0, "") >>
                   \o LocationText("location:", host_prefix, location)
                   \o << Tok("checksum:", 0, "") >>
     IN  /\ dex_file_location' = PrefixedLocation(host_prefix, location)
         /\ \E found \in BOOLEAN :
              IF ~found THEN
                /\ os' = os \o head \o << Tok("NOT FOUND", 0, "") >>
                /\ units' = Append(units, [found |-> FALSE, NumClassDefs |-> 0])
                /\ i' = NextDexFile(i, dex_file_count)
                /\ UNCHANGED << pc, class_def_index >>
              ELSE
                /\ os' = os \o head
                /\ \E n \in NumClassDefsChoices :
                     units' = Append(units, [found |-> TRUE, NumClassDefs |-> n])
                /\ class_def_index' = 0
                /\ pc' = "oat_class"
                /\ UNCHANGED i
  /\ UNCHANGED << exit_code, err, argVars, walkVars, fault_at, oat_location,
                  dex_file_count, class_data >>

\* One iteration of the loop of DumpOatDexFile: the class line, then
\* DumpOatClass.
DumpOatClassDef ==
  /\ pc = "oat_class"
  /\ class_def_index < units[Len(units)].NumClassDefs
  /\ \E cd \in ClassDataChoices :
       LET r == DumpOatClass(cd)
       IN  /\ class_data' = cd
           /\ os' = os \o << Tok("class_def", class_def_index, "") >> \o r.out
           /\ IF r.fault
                THEN /\ pc' = "fault" /\ exit_code' = "ABORT"
                     /\ fault_at' = "class data"
                     /\ UNCHANGED class_def_index
                ELSE /\ class_def_index' = class_def_index + 1
                     /\ UNCHANGED << pc, exit_code, fault_at >>
  /\ UNCHANGED << err, argVars, walkVars, oat_location, dex_file_count, i,
                  dex_file_location, units >>

\* The loop of DumpOatDexFile ends and OatDump::Dump goes to the next unit.
EndOatDexFile ==
  /\ pc = "oat_class"
  /\ class_def_index = units[Len(units)].NumClassDefs
  /\ i' = NextDexFile(i, dex_file_count)
  /\ pc' = "oat_dex"
  /\ class_data' = << >>
  /\ UNCHANGED << exit_code, os, err, argVars, walkVars, fault_at, oat_location,
                  dex_file_count, dex_file_location, units, class_def_index >>

\* OatDump::Dump returns (to oatdump() or through ImageDump::Dump) and
\* oatdump() returns EXIT_SUCCESS.
OatDumpReturn ==
  /\ pc = "oat_dex"
  /\ i = dex_file_count
  /\ pc' = "done"
  /\ exit_code' = "EXIT_SUCCESS"
  /\ UNCHANGED << os, err, argVars, walkVars, fault_at, oat_location, oatVars >>

\* ------------------------------------------------------------ specification
Init ==
  /\ pc = "main"
  /\ exit_code = "none"
  /\ os = << >>
  /\ err = << >>
  /\ oat_filename \in {NULL, "boot.oat"}
  /\ image_filename \in {NULL, "boot.art"}
  /\ host_prefix \in HostPrefixes
  /\ image_file_length \in IF image_filename = NULL THEN {0} ELSE FileLengths
  /\ stats_ = NewStats
  /\ obj = NoObject
  /\ visited = 0
  /\ fault_at = ""
  /\ oat_location = ""
  /\ dex_file_count = 0
  /\ i = 0
  /\ dex_file_location = ""
  /\ units = << >>
  /\ class_def_index = 0
  /\ class_data = << >>

Next ==
  \/ BadArguments
  \/ OpenOatFile
  \/ OpenImage
  \/ Callback
  \/ DumpStats
  \/ FindOatFile
  \/ DumpOatDexFile
  \/ DumpOatClassDef
  \/ EndOatDexFile
  \/ OatDumpReturn

Spec == Init /\ [][Next]_vars

\* ------------------------------------------------------------ properties
\* Whether a token named t was written to the stream.
HasTok(seq, t) == \E k \in 1..Len(seq) : seq[k].t = t

\* The positions of the tokens named t, in order.
Positions(seq, t) ==
  SelectSeq([k \in 1..Len(seq) |-> k], LAMBDA k : seq[k].t = t)

\* The tokens of the stream that only the part of Stats::Dump after its
\* first check, or the companion artifact's dump, writes.
AfterFileBytesCheck ==
  { "object_bytes = sum of descriptor_to_bytes values below:", "bytes",
    "instances", "managed_code_bytes", "managed_to_native_code_bytes",
    "native_to_managed_code_bytes", "register_map_bytes",
    "pc_mapping_table_bytes", "dex_instruction_bytes",
    "managed_code_bytes expansion", "OAT LOCATION:", "NOT FOUND",
    "DEX FILE COUNT:", "OAT DEX FILE:", "class_def", "method" }

\* C1: once the walk is over and the statistics are finalized (file_bytes is
\* the file length, header_bytes the header size, the header padding added),
\* either header_bytes + object_bytes + alignment_bytes = file_bytes, or the
\* process has terminated at that check, having written neither the
\* per-descriptor table nor the later statistics lines nor anything of the
\* companion artifact.
C1_FileBytesReconcile ==
  HasTok(os, "STATS:") =>
    /\ stats_.file_bytes = image_file_length
    /\ stats_.header_bytes = sizeof_ImageHeader
    /\ IF stats_.header_bytes + stats_.object_bytes + stats_.alignment_bytes
            = stats_.file_bytes
         THEN fault_at # "file_bytes"
         ELSE /\ pc = "fault" /\ exit_code = "ABORT" /\ fault_at = "file_bytes"
              /\ \A k \in 1..Len(os) : os[k].t \notin AfterFileBytesCheck

\* Witness of C1: a walk that accounted two objects reconciled with the file
\* length and the dump went on to the companion artifact.
C1_Witness ==
  /\ pc = "oat_location"
  /\ visited = 2
  /\ stats_.object_bytes = 20
  /\ stats_.alignment_bytes = 8
  /\ stats_.file_bytes = 56

RECURSIVE SumOver(_, _)
\* The sum of the values of a table over the keys in D.
SumOver(m, D) ==
  IF D = {} THEN 0
  ELSE LET key == CHOOSE x \in D : TRUE
       IN  m[key] + SumOver(m, D \ {key})

\* C2: in every state, whatever objects were visited, object_bytes is the sum
\* of the values of descriptor_to_bytes, and the dump never terminates at
\* CHECK_EQ(object_bytes, object_bytes_total).
C2_ObjectBytesIsDescriptorSum ==
  /\ stats_.object_bytes
       = SumOver(stats_.descriptor_to_bytes, DOMAIN stats_.descriptor_to_bytes)
  /\ fault_at # "object_bytes"

\* Witness of C2: the statistics were dumped after two objects of the same
\* class descriptor were accounted.
C2_Witness ==
  /\ pc = "oat_location"
  /\ DOMAIN stats_.descriptor_to_count = { Descriptors[1] }
  /\ stats_.descriptor_to_count[Descriptors[1]] = 2
  /\ stats_.object_bytes = 20

\* C3: a callback on an object that the dump space does not contain changes
\* no statistic and writes nothing.
C3_OutOfSpaceIsSkipped ==
  [][ (pc = "walk" /\ visited' = visited + 1 /\ ~obj'.InSpace)
        => (stats_' = stats_ /\ os' = os /\ pc' = pc) ]_vars

\* Witness of C3: an object outside the dump space was passed to the callback
\* after an object inside it had been accounted.
C3_Witness ==
  /\ pc = "walk"
  /\ visited = 2
  /\ ~obj.InSpace
  /\ obj.SizeOf = 12
  /\ stats_.object_bytes = 8

\* What a callback step appended to the stream.
Appended == SubSeq(os', Len(os) + 1, Len(os'))

\* A callback step on an object in the dump space that ran to its write.
CallbackWrote ==
  pc = "walk" /\ visited' = visited + 1 /\ obj'.InSpace /\ pc' = "walk"

\* The execution kind of a method: the first of native, abstract and
\* callee-save stub that it is, else managed.
ExecutionKind(o) ==
  CHOOSE k \in {"native", "abstract", "callee-save", "managed"} :
    /\ (k = "native") = o.IsNative
    /\ (k = "abstract") = (~o.IsNative /\ o.IsAbstract)
    /\ (k = "callee-save") = (~o.IsNative /\ ~o.IsAbstract /\ o.IsCalleeSaveMethod)
    /\ (k = "managed") = (~o.IsNative /\ ~o.IsAbstract /\ ~o.IsCalleeSaveMethod)

\* C4 (as claimed): a method in the dump space whose callback ran to its end
\* keeps the contract of its kind: native, abstract and callee-save methods
\* have no register/GC map (null, length 0) and no mapping table; a managed
\* method has a register/GC map (non-null, length > 0) and a mapping table.
\* A method that breaks the contract of its kind terminates the dump.
C4_SideTableContract ==
  (pc = "walk" /\ visited > 0 /\ obj.InSpace /\ obj.IsMethod) =>
    IF ExecutionKind(obj) = "managed"
      THEN ~obj.GcMapNull /\ obj.GcMapLength > 0 /\ ~obj.MappingTableNull
      ELSE obj.GcMapNull /\ obj.GcMapLength = 0 /\ obj.MappingTableNull

\* The top-level category tokens.
Categories == {"CLASS", "METHOD", "FIELD", "ARRAY", "STRING", "OBJECT"}

\* The category the order class, method, field, array, string, object gives.
FirstCategory(o) ==
  CHOOSE c \in Categories :
    /\ (c = "CLASS") = o.IsClass
    /\ (c = "METHOD") = (~o.IsClass /\ o.IsMethod)
    /\ (c = "FIELD") = (~o.IsClass /\ ~o.IsMethod /\ o.IsField)
    /\ (c = "ARRAY") = (~o.IsClass /\ ~o.IsMethod /\ ~o.IsField /\ o.IsArrayInstance)
    /\ (c = "STRING") = (~o.IsClass /\ ~o.IsMethod /\ ~o.IsField
                           /\ ~o.IsArrayInstance /\ o.IsStringClass)
    /\ (c = "OBJECT") = (~o.IsClass /\ ~o.IsMethod /\ ~o.IsField
                           /\ ~o.IsArrayInstance /\ ~o.IsStringClass)

\* C5: the summary a callback writes for an object in the dump space names
\* exactly one top-level category, the first that applies in the order
\* class, method, field, array, string, plain object.
C5_OneCategoryFirstMatch ==
  [][ CallbackWrote =>
        LET cats == SelectSeq(Appended, LAMBDA tok : tok.t \in Categories)
        IN  Len(cats) = 1 /\ cats[1].t = FirstCategory(obj') ]_vars

\* Witness of C5: an object that is a class and an array whose class is the
\* string class was summarised.
C5_Witness ==
  /\ pc = "walk"
  /\ obj.InSpace /\ obj.IsClass /\ obj.IsArrayInstance /\ obj.IsStringClass
  /\ ~obj.IsMethod
  /\ os[Len(os)].t = "class" /\ os[Len(os) - 1].t = "CLASS"

\* The tokens that name the execution kind of a method.
KindTokens ==
  {"NATIVE REGISTERED", "NATIVE UNREGISTERED", "ABSTRACT",
   "CALLEE SAVE METHOD", "GC="}

\* The token the execution kind of a method is reported with.
KindToken(o) ==
  CASE ExecutionKind(o) = "native" ->
         IF o.IsRegistered THEN Tok("NATIVE REGISTERED", o.NativeMethod, "")
                           ELSE Tok("NATIVE UNREGISTERED", 0, "")
    [] ExecutionKind(o) = "abstract" -> Tok("ABSTRACT", 0, "")
    [] ExecutionKind(o) = "callee-save" -> Tok("CALLEE SAVE METHOD", 0, "")
    [] OTHER -> Tok("GC=", o.GcMapLength, "")

\* C6: the summary written for a method in the dump space names exactly one
\* execution kind, the first that applies in the order native, abstract,
\* callee-save stub, managed; a native method is reported as registered with
\* its native pointer when it is registered and as unregistered otherwise;
\* and a callback adds to the register-map, mapping-table and
\* dex-instruction totals only for a managed method.
C6_OneKindFirstMatch ==
  [][ /\ (CallbackWrote /\ obj'.IsMethod) =>
           LET kinds == SelectSeq(Appended, LAMBDA tok : tok.t \in KindTokens)
           IN  kinds = << KindToken(obj') >>
      /\ (pc = "walk" /\ visited' = visited + 1
            /\ << stats_.register_map_bytes, stats_.pc_mapping_table_bytes,
                  stats_.dex_instruction_bytes >>
               # << stats_'.register_map_bytes, stats_'.pc_mapping_table_bytes,
                    stats_'.dex_instruction_bytes >>)
           => (obj'.InSpace /\ obj'.IsMethod /\ ExecutionKind(obj') = "managed")
    ]_vars

\* Witness of C6: a method that is native, abstract and a callee-save method
\* at once, and registered, was summarised.
C6_Witness ==
  /\ pc = "walk"
  /\ obj.InSpace /\ obj.IsMethod
  /\ obj.IsNative /\ obj.IsAbstract /\ obj.IsCalleeSaveMethod /\ obj.IsRegistered
  /\ os[Len(os)] = Tok("NATIVE REGISTERED", obj.NativeMethod, "")

\* The part of the stream written for the k-th source unit reached.
UnitSection(k) ==
  LET P == Positions(os, "OAT DEX FILE:")
  IN  SubSeq(os, P[k], IF k < Len(P) THEN P[k + 1] - 1 ELSE Len(os))

\* The class indices written in a part of the stream, in order.
ClassIndices(sec) ==
  LET P == Positions(sec, "class_def")
  IN  [j \in 1..Len(P) |-> sec[P[j]].n]

\* 0, 1, ..., m - 1
Iota(m) == [j \in 1..m |-> j - 1]

\* The number of classes of the k-th unit that have been dumped, or begun.
ClassesDumped(k) ==
  IF k < Len(units) \/ pc \in {"oat_dex", "done"} THEN units[k].NumClassDefs
  ELSE IF pc = "fault" THEN class_def_index + 1
  ELSE class_def_index

\* The number of members of one kind in class data.
Members(cd, kind) == Len(SelectSeq(cd, LAMBDA e : e = kind))

\* Class data with no member after the virtual methods that is not one: the
\* members are stored as static fields, instance fields, direct methods and
\* virtual methods, in that order.
InFormatOrder(cd) ==
  LET Rank(e) == CASE e = "SF" -> 1 [] e = "IF" -> 2 [] e = "DM" -> 3
                   [] OTHER -> 4
  IN  \A a, b \in 1..Len(cd) : a < b => Rank(cd[a]) <= Rank(cd[b])

\* The method lines of a class with nd direct and nv virtual methods.
MethodLines(nd, nv) ==
  [j \in 1..(nd + nv) |-> Tok("method", j - 1, IF j <= nd THEN "DM" ELSE "VM")]

\* What was written after the last class line.
AfterLastClassLine ==
  LET P == Positions(os, "class_def")
  IN  SubSeq(os, P[Len(P)] + 1, Len(os))

\* C7: every source unit that was found renders its NumClassDefs class
\* entries in index order; a class that was dumped renders its direct
\* methods, then its virtual methods, with the ordinals 0, 1, 2, ... from 0
\* in every class, and nothing for its fields; a class without class data
\* renders no method and the walk goes on; when the dump of a class ends no
\* member is left after the virtual methods, and when a member is left the
\* dump terminates.
C7_ClassAndMethodWalk ==
  /\ \A k \in 1..Len(units) :
       units[k].found => ClassIndices(UnitSection(k)) = Iota(ClassesDumped(k))
  /\ (pc = "oat_class" /\ class_def_index > 0) =>
       /\ InFormatOrder(class_data)
       /\ AfterLastClassLine
            = MethodLines(Members(class_data, "DM"), Members(class_data, "VM"))
  /\ (pc = "fault" /\ fault_at = "class data") => ~InFormatOrder(class_data)

\* Witness of C7: the second class of a unit was dumped, with static and
\* instance fields, two direct methods and one virtual method.
C7_Witness ==
  /\ pc = "oat_class"
  /\ class_def_index = 2
  /\ class_data = << "SF", "IF", "DM", "DM", "VM" >>
  /\ os[Len(os)] = Tok("method", 2, "VM")

\* The position after the text of the companion artifact's location.
AfterOatLocation ==
  Positions(os, "OAT LOCATION:")[1] + (IF host_prefix # "" THEN 2 ELSE 1)

\* The lookup of the companion artifact failed.
CompanionNotFound ==
  /\ HasTok(os, "OAT LOCATION:")
  /\ AfterOatLocation <= Len(os)
  /\ os[AfterOatLocation].t = "NOT FOUND"

\* C8: the companion artifact is looked up under the host prefix followed by
\* the stored location when there is a prefix, and under the stored location
\* otherwise; when the lookup fails, NOT FOUND is the last thing written, the
\* object summaries and the whole statistics block precede the location,
\* nothing of a compiled-code dump is written, and the process exits with
\* success.
C8_CompanionLookup ==
  /\ oat_location # "" =>
       /\ host_prefix = "/root" => oat_location = "/root/system/foo.art"
       /\ host_prefix = "" => oat_location = "/system/foo.art"
       /\ HasTok(os, "OAT LOCATION:")
  /\ HasTok(os, "OAT LOCATION:") =>
       /\ oat_location # ""
       /\ Positions(os, "OBJECTS:")[1] < Positions(os, "STATS:")[1]
       /\ Positions(os, "STATS:")[1]
            < Positions(os, "managed_code_bytes expansion")[1]
       /\ Positions(os, "managed_code_bytes expansion")[1]
            < Positions(os, "OAT LOCATION:")[1]
       /\ Len(Positions(os, "%p:")) = Len(Positions(os, "class"))
       /\ \A k \in 1..Len(os) :
            os[k].t = "%p:" => k < Positions(os, "STATS:")[1]
  /\ CompanionNotFound =>
       /\ AfterOatLocation = Len(os)
       /\ ~HasTok(os, "DEX FILE COUNT:") /\ ~HasTok(os, "OAT DEX FILE:")
       /\ pc = "done" /\ exit_code = "EXIT_SUCCESS" /\ fault_at = ""

\* Witness of C8: with the prefix "/root" the lookup failed after two objects
\* were summarised.
C8_Witness ==
  /\ CompanionNotFound
  /\ host_prefix = "/root"
  /\ os[AfterOatLocation - 1] = Tok("(", 0, "/root/system/foo.art")
  /\ Len(Positions(os, "%p:")) = 2

\* C9: the units are dumped in header order; a unit whose source file is not
\* found gets NOT FOUND and no class or method line; and the dump goes on, so
\* that when it ends every unit of the artifact was reached and every unit
\* that was found has all its class entries.
C9_MissingSourceFile ==
  /\ Len(Positions(os, "OAT DEX FILE:")) = Len(units)
  /\ \A k \in 1..Len(units) :
       LET sec == UnitSection(k)
       IN  /\ sec[2] = Tok("location:", 0, StoredDexLocations[k])
           /\ ~units[k].found =>
                /\ sec[Len(sec)].t = "NOT FOUND"
                /\ Len(Positions(sec, "NOT FOUND")) = 1
                /\ ~HasTok(sec, "class_def") /\ ~HasTok(sec, "method")
           /\ units[k].found => ~HasTok(sec, "NOT FOUND")
  /\ (pc = "done" /\ HasTok(os, "DEX FILE COUNT:")) =>
       /\ exit_code = "EXIT_SUCCESS"
       /\ Len(units) = dex_file_count
       /\ \A k \in 1..Len(units) :
            Len(Positions(UnitSection(k), "class_def")) = units[k].NumClassDefs

\* Witness of C9: the dump ended with the first unit not found and the second
\* unit dumped with its two classes.
C9_Witness ==
  /\ pc = "done"
  /\ Len(units) = 2
  /\ ~units[1].found
  /\ units[2].found /\ units[2].NumClassDefs = 2

\* An invalid artifact was reported.
InvalidArtifact ==
  \E k \in 1..Len(err) :
    err[k] \in {"Invalid image header", "Failed to open oat file"}

\* C10: when the image header is invalid or the oat file cannot be opened,
\* the error is reported, nothing is written to the output, no object is
\* visited, no statistic is touched, and the process exits with failure.
C10_InvalidArtifact ==
  InvalidArtifact =>
    /\ os = << >>
    /\ visited = 0 /\ stats_ = NewStats
    /\ units = << >> /\ oat_location = ""
    /\ pc = "done" /\ exit_code = "EXIT_FAILURE"

\* Witness of C10: an image whose header is invalid was rejected.
C10_Witness ==
  /\ err = << "Invalid image header" >>
  /\ image_filename # NULL
  /\ pc = "done"

\* A step of ImageDump::Dump that starts the statistics block.
StatsStep == ~HasTok(os, "STATS:") /\ HasTok(os', "STATS:")

\* The padding after the image header, computed from the header size alone.
HeaderPadding ==
  (kObjectAlignment - (sizeof_ImageHeader % kObjectAlignment)) % kObjectAlignment

\* The first token named t of a stream that holds one.
FirstTok(seq, t) == seq[Positions(seq, t)[1]]

\* C11 as the specification states it: when the iterator invokes the callback,
\* no text derived from a visited object has been written yet, and the step
\* that writes the statistics writes the finalized file_bytes, header_bytes
\* and alignment_bytes.
C11_TraversalBeforeRendering ==
  [][ /\ (pc = "walk" /\ visited' = visited + 1) => ~HasTok(os, "%p:")
      /\ StatsStep =>
            /\ FirstTok(Appended, "file_bytes").n = image_file_length
            /\ FirstTok(Appended, "header_bytes").n = sizeof_ImageHeader
            /\ FirstTok(Appended, "alignment_bytes").n
                 = stats_.alignment_bytes + HeaderPadding ]_vars

\* C11, amended: the summary of an object in the dump space is written by its
\* own callback, during the walk, after the summaries of the objects visited
\* before it; what waits for the end of the walk is the statistics block: no
\* callback runs once it is started, it is written after the statistics are
\* finalized (it shows the file length, the header size and the alignment
\* total with the header padding), and nothing changes the statistics or adds
\* an object summary after it.
C11_SummariesDuringWalkStatsAfter ==
  [][ /\ CallbackWrote =>
            /\ Len(Positions(Appended, "%p:")) = 1
            /\ Appended[1].t = "%p:"
            /\ FirstTok(Appended, "class").d = obj'.Descriptor
            /\ SubSeq(os', 1, Len(os)) = os
      /\ (visited' = visited + 1) => ~HasTok(os, "STATS:") /\ ~HasTok(os', "STATS:")
      /\ StatsStep =>
            /\ pc = "walk"
            /\ visited' = visited
            /\ FirstTok(Appended, "file_bytes").n = image_file_length
            /\ FirstTok(Appended, "header_bytes").n = sizeof_ImageHeader
            /\ FirstTok(Appended, "alignment_bytes").n
                 = stats_.alignment_bytes + HeaderPadding
            /\ stats_'.file_bytes = image_file_length
            /\ stats_'.header_bytes = sizeof_ImageHeader
            /\ stats_'.alignment_bytes = stats_.alignment_bytes + HeaderPadding
      /\ HasTok(os, "STATS:") =>
            /\ stats_' = stats_
            /\ visited' = visited
            /\ Positions(os', "%p:") = Positions(os, "%p:") ]_vars

\* Witness of C11: two objects in the dump space were summarized, one callback
\* after the other, and the statistics block followed both summaries.
C11_Witness ==
  /\ pc = "oat_location"
  /\ visited = 2
  /\ Len(Positions(os, "%p:")) = 2
  /\ Positions(os, "STATS:")[1] > Positions(os, "%p:")[2]
  /\ FirstTok(os, "alignment_bytes").n = stats_.alignment_bytes

\* A method that reaches the last branch of the chain on the kind of method.
IsManaged(o) == o.IsMethod /\ ExecutionKind(o) = "managed"

\* C12: every callback on an object in the dump space that runs to its end
\* adds, for a managed method, its GC-map length to register_map_bytes, its
\* mapping-table length to pc_mapping_table_bytes, twice its instruction-unit
\* count to dex_instruction_bytes and its code bytes to managed_code_bytes,
\* and adds nothing to them for any other object; the totals start at 0, so
\* that after any traversal each is the sum over the visited managed methods.
C12_KindBytesRouted ==
  [][ CallbackWrote =>
        LET o == obj'
            of(n) == IF IsManaged(o) THEN n ELSE 0
        IN  /\ stats_'.register_map_bytes
                 = stats_.register_map_bytes + of(o.GcMapLength)
            /\ stats_'.pc_mapping_table_bytes
                 = stats_.pc_mapping_table_bytes + of(o.MappingTableLength)
            /\ stats_'.dex_instruction_bytes
                 = stats_.dex_instruction_bytes + of(2 * o.insns_size_in_code_units)
            /\ stats_'.managed_code_bytes
                 = stats_.managed_code_bytes + of(o.code_size) ]_vars

\* A callback step on an object in the dump space, run to its end or not.
InSpaceCallback == pc = "walk" /\ visited' = visited + 1 /\ obj'.InSpace

\* The entry of a descriptor table, 0 while the key is absent.
Entry(table, d) == IF d \in DOMAIN table THEN table[d] ELSE 0

\* The byte and count totals of the statistics, by name.
Totals(s) ==
  << s.file_bytes, s.header_bytes, s.object_bytes, s.alignment_bytes,
     s.managed_code_bytes, s.managed_to_native_code_bytes,
     s.native_to_managed_code_bytes, s.register_map_bytes,
     s.pc_mapping_table_bytes, s.dex_instruction_bytes >>

\* The callbacks that got as far as the accounting: the ones that wrote their
\* summary, and the one a failed check stopped before its write.
InRegionVisits ==
  Len(Positions(os, "%p:")) + (IF fault_at = "method side tables" THEN 1 ELSE 0)

\* C13: one callback on an object in the dump space adds the object's size to
\* object_bytes, the padding that rounds the size up to the alignment (a value
\* in 0..ALIGNMENT-1) to alignment_bytes, the size to descriptor_to_bytes[d]
\* and 1 to descriptor_to_count[d] for its descriptor d, an absent entry
\* counting as 0, and leaves the other entries alone; the finalization sets
\* header_bytes to the header size and adds the header's padding to
\* alignment_bytes, so that alignment_bytes is then the sum of the paddings
\* of the objects accounted plus the header's; no other step changes the
\* statistics, no total ever decreases, and the sum of descriptor_to_count is
\* the number of callbacks on objects in the dump space.
C13_AccountedOncePerVisit ==
  [][ /\ InSpaceCallback =>
            LET size == obj'.SizeOf
                padding == (kObjectAlignment - (size % kObjectAlignment))
                             % kObjectAlignment
                d == obj'.Descriptor
                bytes == stats_.descriptor_to_bytes
                count == stats_.descriptor_to_count
            IN  /\ padding \in 0..(kObjectAlignment - 1)
                /\ stats_'.object_bytes = stats_.object_bytes + size
                /\ stats_'.alignment_bytes = stats_.alignment_bytes + padding
                /\ DOMAIN stats_'.descriptor_to_bytes = DOMAIN bytes \cup {d}
                /\ DOMAIN stats_'.descriptor_to_count = DOMAIN count \cup {d}
                /\ stats_'.descriptor_to_bytes[d] = Entry(bytes, d) + size
                /\ stats_'.descriptor_to_count[d] = Entry(count, d) + 1
                /\ \A e \in DOMAIN bytes \ {d} :
                      /\ stats_'.descriptor_to_bytes[e] = bytes[e]
                      /\ stats_'.descriptor_to_count[e] = count[e]
                /\ stats_'.header_bytes = stats_.header_bytes
                /\ stats_'.file_bytes = stats_.file_bytes
      /\ StatsStep =>
            /\ stats_'.header_bytes = sizeof_ImageHeader
            /\ stats_'.alignment_bytes = stats_.alignment_bytes + HeaderPadding
            /\ stats_'.object_bytes = stats_.object_bytes
            /\ stats_'.descriptor_to_bytes = stats_.descriptor_to_bytes
            /\ stats_'.descriptor_to_count = stats_.descriptor_to_count
      /\ (~InSpaceCallback /\ ~StatsStep) => stats_' = stats_
      /\ \A k \in 1..Len(Totals(stats_)) : Totals(stats_')[k] >= Totals(stats_)[k]
      /\ SumOver(stats_'.descriptor_to_count, DOMAIN stats_'.descriptor_to_count)
           = InRegionVisits' ]_vars

\* Witness of C13: an object of size 12 and one of size 8, of two classes,
\* were accounted and the statistics finalized: the padding total is the 4
\* bytes of the first object plus the header's padding.
C13_Witness ==
  /\ pc = "oat_location"
  /\ stats_.header_bytes = sizeof_ImageHeader
  /\ stats_.alignment_bytes = 4 + HeaderPadding
  /\ DOMAIN stats_.descriptor_to_count = { Descriptors[1], Descriptors[2] }
  /\ stats_.descriptor_to_bytes[Descriptors[1]] = 12
  /\ stats_.descriptor_to_bytes[Descriptors[2]] = 8
  /\ stats_.descriptor_to_count[Descriptors[1]] = 1
  /\ stats_.descriptor_to_count[Descriptors[2]] = 1

====
